---- MODULE Spec2Model ----
(***************************************************************************)
(* Model of the KLSE report analyzer.                                      *)
(*                                                                         *)
(*   - KLSEAnalyzerPage (the client page): the React state of the page,    *)
(*     its event handlers, and the asynchronous continuation of onSubmit   *)
(*     (file read, upstream call, progress timer).                         *)
(*   - analyzeKLSEReportFlow (the server flow): the process-wide           *)
(*     credential and the invocations of the flow in one server process.   *)
(*                                                                         *)
(* Optional values (T | null) are sequences of length at most one:         *)
(* None is null, Some(x) is the value x.  User-visible texts are the       *)
(* source's Chinese literals, written here in English.                     *)
(***************************************************************************)
EXTENDS Naturals, Sequences, FiniteSets

VARIABLES
    file,            \* useState<File | null>
    isLoading,       \* useState(false)
    progress,        \* useState(0)
    analysisResult,  \* useState<string | null>
    error,           \* useState<string | null>; a text is a sequence of parts
    apiKey,          \* form value apiKey
    model,           \* form value model
    apiKeyError,     \* the form shows the apiKey validation message
    reqs,            \* onSubmit invocations suspended at an await
    intervals,       \* live setInterval handles
    toastFired,      \* notifications fired by the last handler
    lastOp,          \* the handler or continuation that ran last
    lastArg,         \* what it was given (file, html, thrown value, request)
    env,             \* process.env.GOOGLE_GENAI_API_KEY of the server process
    inv              \* invocations of analyzeKLSEReportFlow in that process

uiVars == <<file, isLoading, progress, analysisResult, error, apiKey, model,
            apiKeyError, reqs, intervals, toastFired, lastOp, lastArg>>
flowVars == <<env, inv>>
vars == <<file, isLoading, progress, analysisResult, error, apiKey, model,
          apiKeyError, reqs, intervals, toastFired, lastOp, lastArg, env, inv>>

None == <<>>
Some(x) == <<x>>

----------------------------------------------------------------------------
(* Inputs *)

PDF_MIME == "application/pdf"

Files ==
    { [name |-> "q1.pdf",   type |-> PDF_MIME],
      [name |-> "q2.pdf",   type |-> PDF_MIME],
      [name |-> "memo.txt", type |-> "text/plain"],
      [name |-> "blob",     type |-> ""] }

ApiKeyInputs == {"", "key-1", "key-2"}

DEFAULT_MODEL == "gemini-2.5-flash"
Models == {"gemini-2.5-pro", "gemini-2.5-flash"}

\* blogPostHtml is z.string(): the empty string conforms to the schema
HtmlValues == {"", "<div>Q1</div>", "<p>Q2</p>"}

\* values the awaited promises reject with
UpstreamErrors ==
    { [kind |-> "Error", message |-> "Unauthorized"],
      [kind |-> "Error", message |-> "fetch failed"] }
\* reader.onerror rejects with the ProgressEvent itself; message is the
\* message of the underlying reader.error
ReadErrors ==
    { [kind |-> "ProgressEvent", message |-> "NotReadableError"] }

\* API keys of the requests the server process receives
ServerKeys == {"key-1", "key-2"}

\* number of requests the server process handles at the same time
MaxInvocations == 2
Invocations == 1..MaxInvocations

IdleInvocation == [phase |-> "idle", apiKey |-> "", usedKey |-> None]

----------------------------------------------------------------------------
(* Texts *)

NO_FILE_MSG == <<"Please upload a quarterly report PDF.">>
UNKNOWN_MSG == "An unknown error occurred."
FAILED_PREFIX == "Analysis failed: "

InvalidTypeToast == [variant |-> "destructive", title |-> "Invalid file type"]
AnalysisErrorToast == [variant |-> "destructive", title |-> "Analysis error"]

\* a text includes m when m is one of its parts
Includes(text, m) == \E i \in 1..Len(text) : text[i] = m

\* variant: every thrown value is reported with the generic text
errorMessage_generic(err) == UNKNOWN_MSG

\* err instanceof Error ? err.message : "unknown error"
errorMessage(err) == IF err.kind = "Error" THEN err.message ELSE UNKNOWN_MSG

----------------------------------------------------------------------------
(* Views *)

\* JavaScript truthiness of string | null
Truthy(s) == s # None /\ s[1] # ""

\* variant: the loading view does not replace the form
View_noLoading ==
    IF Truthy(analysisResult) THEN "result" ELSE "form"

View ==
    IF isLoading THEN "loading"
    ELSE IF Truthy(analysisResult) THEN "result"
    ELSE "form"

\* variant: the schema accepts every string
formSchemaValid_any(k) == TRUE

\* formSchema: apiKey is z.string().min(1)
formSchemaValid(k) == k # ""

\* fileToBase64 resolves with the reader's data URL of the file
DataUri(f) == <<"data:", f.type, ";base64,", f.name>>

\* a handle setInterval has not handed out among the live ones
FreshHandle ==
    CHOOSE n \in 1..(Cardinality(intervals) + Cardinality(reqs) + 1) :
        n \notin intervals /\ n \notin {r.id : r \in reqs}

----------------------------------------------------------------------------
(* Initial state *)

InitFlow ==
    /\ env = None
    /\ inv = [i \in Invocations |-> IdleInvocation]

Init ==
    /\ file = None
    /\ isLoading = FALSE
    /\ progress = 0
    /\ analysisResult = None
    /\ error = None
    /\ apiKey = ""
    /\ model = DEFAULT_MODEL
    /\ apiKeyError = FALSE
    /\ reqs = {}
    /\ intervals = {}
    /\ toastFired = <<>>
    /\ lastOp = "init"
    /\ lastArg = None
    /\ InitFlow

----------------------------------------------------------------------------
(* Handlers of the page *)

\* variant: a rejected file leaves the selection as it was
handleFileSelect_keep(f) ==
    /\ View = "form"
    /\ IF f.type # PDF_MIME
       THEN /\ toastFired' = <<InvalidTypeToast>>
            /\ lastOp' = "handleFileSelect_reject"
            /\ UNCHANGED <<file, error>>
       ELSE /\ error' = None
            /\ file' = Some(f)
            /\ toastFired' = <<>>
            /\ lastOp' = "handleFileSelect_accept"
    /\ lastArg' = <<f, file>>
    /\ UNCHANGED <<isLoading, progress, analysisResult, apiKey, model,
                   apiKeyError, reqs, intervals>>
    /\ UNCHANGED flowVars

\* handleFileChange / handleDrop pass files[0] to handleFileSelect
handleFileSelect(f) ==
    /\ View = "form"
    /\ IF f.type # PDF_MIME
       THEN /\ toastFired' = <<InvalidTypeToast>>
            /\ file' = None
            /\ lastOp' = "handleFileSelect_reject"
            /\ UNCHANGED error
       ELSE /\ error' = None
            /\ file' = Some(f)
            /\ toastFired' = <<>>
            /\ lastOp' = "handleFileSelect_accept"
    /\ lastArg' = <<f, file>>
    /\ UNCHANGED <<isLoading, progress, analysisResult, apiKey, model,
                   apiKeyError, reqs, intervals>>
    /\ UNCHANGED flowVars

\* the "remove file" button, rendered when a file is selected
removeFile ==
    /\ View = "form"
    /\ file # None
    /\ file' = None
    /\ toastFired' = <<>>
    /\ lastOp' = "removeFile"
    /\ lastArg' = None
    /\ UNCHANGED <<isLoading, progress, analysisResult, error, apiKey, model,
                   apiKeyError, reqs, intervals>>
    /\ UNCHANGED flowVars

\* the apiKey input
setApiKey(k) ==
    /\ View = "form"
    /\ k # apiKey
    /\ apiKey' = k
    /\ toastFired' = <<>>
    /\ lastOp' = "setApiKey"
    /\ lastArg' = None
    /\ UNCHANGED <<file, isLoading, progress, analysisResult, error, model,
                   apiKeyError, reqs, intervals>>
    /\ UNCHANGED flowVars

\* the model select
setModel(m) ==
    /\ View = "form"
    /\ m # model
    /\ model' = m
    /\ toastFired' = <<>>
    /\ lastOp' = "setModel"
    /\ lastArg' = None
    /\ UNCHANGED <<file, isLoading, progress, analysisResult, error, apiKey,
                   apiKeyError, reqs, intervals>>
    /\ UNCHANGED flowVars

\* variant: the missing-file branch does not return
onSubmit_noReturn(values) ==
    /\ IF file = None
       THEN /\ error' = Some(NO_FILE_MSG)
            /\ lastOp' = "onSubmit_nofile"
       ELSE /\ error' = None
            /\ lastOp' = "onSubmit_start"
    /\ analysisResult' = None
    /\ isLoading' = TRUE
    /\ progress' = 0
    /\ lastArg' = None
    /\ UNCHANGED <<file, reqs, intervals>>

\* onSubmit(values), up to its first await
onSubmit(values) ==
    IF file = None
    THEN /\ error' = Some(NO_FILE_MSG)
         /\ lastOp' = "onSubmit_nofile"
         /\ lastArg' = None
         /\ UNCHANGED <<file, isLoading, progress, analysisResult, reqs,
                        intervals>>
    ELSE LET id == FreshHandle IN
         /\ error' = None
         /\ analysisResult' = None
         /\ isLoading' = TRUE
         /\ progress' = 0
         /\ intervals' = intervals \cup {id}
         /\ reqs' = reqs \cup {[id |-> id, file |-> file[1], values |-> values,
                                phase |-> "reading", input |-> None,
                                calls |-> 0]}
         /\ lastOp' = "onSubmit_start"
         /\ lastArg' = None
         /\ UNCHANGED file

\* the form's submit event: form.handleSubmit(onSubmit) validates the values
\* against formSchema and calls onSubmit only when they are valid.  The
\* submit button is disabled while no file is selected, but the handler is
\* bound to the form's submit event and onSubmit checks the file itself, so
\* the event is taken with or without a file.
handleSubmit ==
    /\ View = "form"
    /\ toastFired' = <<>>
    /\ IF formSchemaValid(apiKey)
       THEN /\ apiKeyError' = FALSE
            /\ onSubmit([apiKey |-> apiKey, model |-> model])
       ELSE /\ apiKeyError' = TRUE
            /\ lastOp' = "handleSubmit_invalid"
            /\ lastArg' = None
            /\ UNCHANGED <<file, isLoading, progress, analysisResult, error,
                           reqs, intervals>>
    /\ UNCHANGED <<apiKey, model>>
    /\ UNCHANGED flowVars

\* the setInterval callback of request id
tick(id) ==
    /\ id \in intervals
    /\ IF progress >= 95
       THEN /\ intervals' = intervals \ {id}
            /\ UNCHANGED progress
       ELSE /\ progress' = progress + 5
            /\ UNCHANGED intervals
    /\ toastFired' = <<>>
    /\ lastOp' = "tick"
    /\ lastArg' = Some(id)
    /\ UNCHANGED <<file, isLoading, analysisResult, error, apiKey, model,
                   apiKeyError, reqs>>
    /\ UNCHANGED flowVars

\* variant: finally does not clear the interval
finally_noClear(r) ==
    /\ UNCHANGED intervals
    /\ isLoading' = FALSE
    /\ reqs' = reqs \ {r}

\* finally { clearInterval(progressInterval); setIsLoading(false); }
finally(r) ==
    /\ intervals' = intervals \ {r.id}
    /\ isLoading' = FALSE
    /\ reqs' = reqs \ {r}

\* catch (err)
catch(r, err) ==
    /\ error' = Some(<<FAILED_PREFIX, errorMessage(err)>>)
    /\ toastFired' = <<AnalysisErrorToast>>
    /\ finally(r)

\* fileToBase64 resolved: analyzeKLSEReport is called with the data URI
readResolve(r) ==
    /\ r \in reqs
    /\ r.phase = "reading"
    /\ reqs' = (reqs \ {r}) \cup
               {[r EXCEPT !.phase = "calling",
                          !.input = Some([reportDataUri |-> DataUri(r.file),
                                          geminiModel |-> r.values.model,
                                          apiKey |-> r.values.apiKey]),
                          !.calls = r.calls + 1]}
    /\ toastFired' = <<>>
    /\ lastOp' = "readResolve"
    /\ lastArg' = Some(r)
    /\ UNCHANGED <<file, isLoading, progress, analysisResult, error, apiKey,
                   model, apiKeyError, intervals>>
    /\ UNCHANGED flowVars

\* fileToBase64 rejected
readReject(r, err) ==
    /\ r \in reqs
    /\ r.phase = "reading"
    /\ catch(r, err)
    /\ lastOp' = "readReject"
    /\ lastArg' = <<r, err>>
    /\ UNCHANGED <<file, progress, analysisResult, apiKey, model, apiKeyError>>
    /\ UNCHANGED flowVars

\* analyzeKLSEReport resolved with {blogPostHtml: h}
callResolve(r, h) ==
    /\ r \in reqs
    /\ r.phase = "calling"
    /\ analysisResult' = Some(h)
    /\ progress' = 100
    /\ finally(r)
    /\ toastFired' = <<>>
    /\ lastOp' = "callResolve"
    /\ lastArg' = <<r, h>>
    /\ UNCHANGED <<file, error, apiKey, model, apiKeyError>>
    /\ UNCHANGED flowVars

\* analyzeKLSEReport rejected
callReject(r, err) ==
    /\ r \in reqs
    /\ r.phase = "calling"
    /\ catch(r, err)
    /\ lastOp' = "callReject"
    /\ lastArg' = <<r, err>>
    /\ UNCHANGED <<file, progress, analysisResult, apiKey, model, apiKeyError>>
    /\ UNCHANGED flowVars

\* variant: progress is not reset
resetState_keepProgress ==
    /\ View = "result"
    /\ file' = None
    /\ analysisResult' = None
    /\ error' = None
    /\ isLoading' = FALSE
    /\ apiKey' = ""
    /\ model' = DEFAULT_MODEL
    /\ apiKeyError' = FALSE
    /\ toastFired' = <<>>
    /\ lastOp' = "resetState"
    /\ lastArg' = None
    /\ UNCHANGED <<progress, reqs, intervals>>
    /\ UNCHANGED flowVars

\* the "analyze another report" button of the result view
resetState ==
    /\ View = "result"
    /\ file' = None
    /\ analysisResult' = None
    /\ error' = None
    /\ isLoading' = FALSE
    /\ progress' = 0
    /\ apiKey' = ""
    /\ model' = DEFAULT_MODEL
    /\ apiKeyError' = FALSE
    /\ toastFired' = <<>>
    /\ lastOp' = "resetState"
    /\ lastArg' = None
    /\ UNCHANGED <<reqs, intervals>>
    /\ UNCHANGED flowVars

Next ==
    \/ \E f \in Files : handleFileSelect(f)
    \/ removeFile
    \/ \E k \in ApiKeyInputs : setApiKey(k)
    \/ \E m \in Models : setModel(m)
    \/ handleSubmit
    \/ \E id \in intervals : tick(id)
    \/ \E r \in reqs : readResolve(r)
    \/ \E r \in reqs, err \in ReadErrors : readReject(r, err)
    \/ \E r \in reqs, h \in HtmlValues : callResolve(r, h)
    \/ \E r \in reqs, err \in UpstreamErrors : callReject(r, err)
    \/ resetState

Spec == Init /\ [][Next]_vars

----------------------------------------------------------------------------
(* The server flow analyzeKLSEReportFlow *)

\* invocation i starts: the input's apiKey is written to the process-wide
\* credential and the prompt is called; the flow suspends at the await
flowStart(i, k) ==
    /\ inv[i].phase \in {"idle", "done"}
    /\ env' = Some(k)
    /\ inv' = [inv EXCEPT ![i] = [phase |-> "prompt", apiKey |-> k,
                                  usedKey |-> None]]
    /\ UNCHANGED uiVars

\* the awaited prompt makes its outbound model call, which reads the
\* process-wide credential at that moment
flowOutbound(i) ==
    /\ inv[i].phase = "prompt"
    /\ inv' = [inv EXCEPT ![i].phase = "sent", ![i].usedKey = env]
    /\ UNCHANGED env
    /\ UNCHANGED uiVars

\* the prompt resolved: the flow returns its output
flowReturn(i) ==
    /\ inv[i].phase = "sent"
    /\ inv' = [inv EXCEPT ![i].phase = "done"]
    /\ UNCHANGED env
    /\ UNCHANGED uiVars

NextFlow ==
    \/ \E i \in Invocations, k \in ServerKeys : flowStart(i, k)
    \/ \E i \in Invocations : flowOutbound(i)
    \/ \E i \in Invocations : flowReturn(i)

SpecFlow == Init /\ [][NextFlow]_vars

----------------------------------------------------------------------------
(* Properties *)

OneDestructiveToast ==
    Len(toastFired) = 1 /\ toastFired[1].variant = "destructive"

Settled == lastOp \in {"readReject", "callResolve", "callReject"}

\* C1 (as stated): a file whose type is not application/pdf is rejected and
\* the selection after handleFileSelect equals the selection before it,
\* whether no file or a PDF was selected
C1_SelectionUnchanged ==
    lastOp = "handleFileSelect_reject" => file = lastArg[2]

\* C1 (amended): a file is rejected exactly when its type is not
\* application/pdf; the rejection fires one destructive notification,
\* leaves error, isLoading, progress and analysisResult as they were and
\* clears the selection, so the selection is unchanged only when no file
\* was selected before
C1_RejectClearsSelection ==
    [][ /\ lastOp' \in {"handleFileSelect_reject", "handleFileSelect_accept"}
           => (lastOp' = "handleFileSelect_reject"
                 <=> lastArg'[1].type # PDF_MIME)
        /\ lastOp' = "handleFileSelect_reject"
           => /\ file' = None
              /\ lastArg'[2] = file
              /\ OneDestructiveToast'
              /\ UNCHANGED <<error, isLoading, progress, analysisResult>>
      ]_vars

C1_Witness ==
    /\ lastOp = "handleFileSelect_reject"
    /\ lastArg[1].type # PDF_MIME
    /\ lastArg[2] # None
    /\ file = None

\* C2: whenever onSubmit runs with no file selected, error becomes the fixed
\* "please upload a PDF" message, shown in the form; no file read and no
\* upstream call starts, and isLoading, progress and analysisResult keep
\* their values; onSubmit goes on only with a file selected
C2_NoFileBlocksSubmit ==
    [][ /\ lastOp' = "onSubmit_nofile"
           => /\ file = None
              /\ error' = Some(NO_FILE_MSG)
              /\ View' = "form"
              /\ reqs' = reqs /\ reqs' = {}
              /\ intervals' = intervals
              /\ UNCHANGED <<file, isLoading, progress, analysisResult>>
        /\ lastOp' = "onSubmit_start" => file # None
      ]_vars

C2_Witness ==
    /\ lastOp = "onSubmit_nofile"
    /\ file = None
    /\ error = Some(NO_FILE_MSG)

\* C3: no onSubmit invocation and no analyzeKLSEReport input carries the
\* empty API key; a submit with the empty API key is blocked by validation
\* and leaves file, isLoading, progress, analysisResult and error unchanged
C3_NoEmptyKeyCall ==
    \A r \in reqs :
        /\ r.values.apiKey # ""
        /\ r.input # None => r.input[1].apiKey # ""

C3_EmptyKeyBlocked ==
    /\ C3_NoEmptyKeyCall
    /\ [][ /\ C3_NoEmptyKeyCall'
           /\ lastOp' \in {"onSubmit_nofile", "onSubmit_start"} => apiKey # ""
           /\ lastOp' = "handleSubmit_invalid"
              => /\ apiKey = ""
                 /\ apiKeyError'
                 /\ reqs' = reqs
                 /\ UNCHANGED <<file, isLoading, progress, analysisResult,
                                error>>
         ]_vars

C3_Witness ==
    /\ lastOp = "handleSubmit_invalid"
    /\ apiKey = ""
    /\ file # None
    /\ apiKeyError

\* C4 (as stated): after the upstream call resolves with {blogPostHtml: h},
\* for every string h, the page is in the result view and shows h verbatim:
\* analysisResult = h, error = null, isLoading = false
C4_ResultShownVerbatim ==
    lastOp = "callResolve"
        => /\ View = "result"
           /\ analysisResult = Some(lastArg[2])
           /\ error = None
           /\ ~isLoading

\* C5 (as stated): after any failure of a submit (upstream call or file
\* read) the displayed error includes the failure's message, one destructive
\* notification fired, analysisResult is null and isLoading is false
C5_ErrorIncludesMessage ==
    lastOp \in {"readReject", "callReject"}
        => /\ error # None
           /\ Includes(error[1], lastArg[2].message)
           /\ OneDestructiveToast
           /\ analysisResult = None
           /\ ~isLoading

\* C5 (amended): after the upstream call throws an Error with message m the
\* displayed error is the failure prefix followed by m; after the file read
\* fails it is the prefix followed by the generic unknown-error text; in both
\* cases one destructive notification fired, analysisResult is null and
\* isLoading is false
C5_FailureReported ==
    lastOp \in {"readReject", "callReject"}
        => /\ lastOp = "callReject"
              => /\ error = Some(<<FAILED_PREFIX, lastArg[2].message>>)
                 /\ Includes(error[1], lastArg[2].message)
           /\ lastOp = "readReject"
              => error = Some(<<FAILED_PREFIX, UNKNOWN_MSG>>)
           /\ OneDestructiveToast
           /\ analysisResult = None
           /\ ~isLoading

C5_Witness ==
    /\ lastOp = "callReject"
    /\ lastArg[2].message = "Unauthorized"
    /\ Includes(error[1], "Unauthorized")
    /\ View = "form"

\* C6: after resetState, run from the result view, every state variable of
\* the page has its initial value and the form fields their defaults
C6_ResetRestoresInitial ==
    lastOp = "resetState"
        => /\ file = None
           /\ analysisResult = None
           /\ error = None
           /\ progress = 0
           /\ isLoading = FALSE
           /\ apiKey = ""
           /\ model = DEFAULT_MODEL
           /\ apiKeyError = FALSE
           /\ reqs = {}
           /\ intervals = {}
           /\ View = "form"

C6_Witness ==
    /\ lastOp = "resetState"
    /\ progress = 0
    /\ file = None

\* C7: at most one onSubmit invocation is pending at any time, and each
\* issues at most one analyzeKLSEReport call: none while the file is read
\* or when the read fails, exactly one once the read succeeded
C7_SingleInFlight ==
    /\ Cardinality(reqs) <= 1
    /\ \A r \in reqs :
          /\ r.phase = "reading" => r.calls = 0
          /\ r.phase = "calling" => r.calls = 1
    /\ lastOp = "readReject" => lastArg[1].calls = 0
    /\ lastOp \in {"callResolve", "callReject"} => lastArg[1].calls = 1
    /\ lastOp = "onSubmit_start" => Cardinality(reqs) = 1

C7_Witness ==
    /\ \E r \in reqs : r.phase = "calling" /\ r.calls = 1
    /\ isLoading

\* C8 (as stated): the credential read by the outbound call of an
\* invocation of analyzeKLSEReportFlow is the apiKey of that invocation
C8_OwnKeyUsed ==
    \A i \in Invocations :
        inv[i].phase \in {"sent", "done"}
            => inv[i].usedKey = Some(inv[i].apiKey)

\* C9: progress is always a multiple of 5 between 0 and 100, and is 100 only
\* with the result of a successful response; a timer tick happens only
\* while a request is in flight, raises progress by 5 or leaves it, and
\* never takes it above 95; once loading has ended no interval is live
ProgressInRange ==
    /\ progress \in {5 * n : n \in 0..20}
    /\ progress = 100 => analysisResult # None
    /\ ~isLoading => intervals = {}

C9_ProgressCeiling ==
    /\ ProgressInRange
    /\ [][ /\ ProgressInRange'
           /\ lastOp' = "tick"
              => /\ isLoading /\ reqs # {}
                 /\ progress' \in {progress, progress + 5}
                 /\ progress' <= 95
           /\ progress' = 100 /\ progress # 100 => lastOp' = "callResolve"
         ]_vars

C9_Witness ==
    /\ lastOp = "tick"
    /\ progress = 95
    /\ isLoading
    /\ intervals = {}

\* C10 (as stated): when an accepted submit has run to completion or
\* failure the page is not loading and shows exactly one of the result view
\* with the returned HTML and the form with an error message
ResultShown == View = "result" /\ analysisResult # None
ErrorShown == View = "form" /\ error # None

C10_DisplayOrError ==
    Settled => /\ ~isLoading
               /\ ResultShown \/ ErrorShown
               /\ ~(ResultShown /\ ErrorShown)

====
